---- MODULE Spec2Model ----
(***************************************************************************)
(* Field-of-vision engine of ambregris (field_of_vision/src/lib.rs):       *)
(* the dense FovMap (transparency + visibility vectors), its accessors,    *)
(* the perimeter ray sweep with the four diagonal post-processing passes,  *)
(* and the sub-grid variant field_of_view over the Map capability.         *)
(***************************************************************************)
EXTENDS Integers, Sequences, FiniteSets, TLC

(***************************************************************************)
(* Bounds of the model.                                                    *)
(***************************************************************************)
\* Largest grid width / height handed to FovMap::new in the full state machine.
MaxW == 2
MaxH == 2
\* Largest ordinary radius handed to calculate_fov / field_of_view.
MaxRadius == 2
\* Largest number of opaque cells set_transparent is let to build up.
MaxWalls == 1
\* Largest side of the grids of SpecSweep, their largest number of opaque
\* cells and the largest ordinary radius swept on them.
MaxSide == 3
MaxSweepWalls == 1
MaxSweepRadius == 4
\* Largest width and height of the grids of SpecPasses, their largest number
\* of opaque cells and the largest ordinary radius swept on them.
MaxPassW == 3
MaxPassH == 2
MaxPassWalls == 3
MaxPassRadius == 1

(***************************************************************************)
(* i32 arithmetic.  Rust panics on overflow when the build has overflow    *)
(* checks (debug profile) and wraps modulo 2^32 otherwise (release); the   *)
(* operations take the choice as their parameter checks.                   *)
(***************************************************************************)
I32Max == 2147483647
I32Min == (-2147483647) - 1

\* Largest r whose square still fits an i32: 46340^2 = 2147395600.
SqrtI32Max == 46340

AbsI(n) == IF n < 0 THEN -n ELSE n

\* a + b overflows an i32.
AddOverflows(a, b) ==
    \/ b > 0 /\ a > I32Max - b
    \/ b < 0 /\ a < I32Min - b

\* a + b modulo 2^32 as a signed value, computed without leaving the i32 range.
WrappingAdd(a, b) ==
    IF b > 0 /\ a > I32Max - b THEN ((a - I32Max) - 1) + ((b - I32Max) - 1)
    ELSE IF b < 0 /\ a < I32Min - b THEN ((a + I32Max) + 1) + ((b + I32Max) + 1)
    ELSE a + b

\* a - b: no operand of the sweep is I32Min on the right-hand side.
SubOverflows(a, b) == AddOverflows(a, -b)
WrappingSub(a, b) == WrappingAdd(a, -b)

\* r.pow(2) overflows an i32.
PowOverflows(r) == r = I32Min \/ AbsI(r) > SqrtI32Max

\* r.pow(2) modulo 2^32 as a signed value, by 16-bit limbs so that no
\* intermediate product leaves the i32 range.
WrappingPow2(r) ==
    IF r = I32Min THEN 0
    ELSE LET a  == AbsI(r)
             l  == a % 65536
             h  == a \div 65536
             p  == l \div 256
             q  == l % 256
             t  == 2 * p * q * 256 + q * q
             lo == t % 65536
             hi == (p * p + (t \div 65536) + 2 * ((h * l) % 32768)) % 65536
         IN  IF hi >= 32768 THEN (hi - 65536) * 65536 + lo ELSE hi * 65536 + lo

\* a * b overflows an i32; no operand of the model is I32Min.
MulOverflows(a, b) ==
    IF a = 0 \/ b = 0 THEN FALSE
    ELSE LET q == I32Max \div AbsI(b)
             r == I32Max % AbsI(b)
         IN  IF (a > 0) = (b > 0) THEN AbsI(a) > q
             ELSE AbsI(a) > q /\ ~(AbsI(a) = q + 1 /\ r = AbsI(b) - 1)

\* a * b modulo 2^32 as a signed value, by 16-bit limbs so that no
\* intermediate product leaves the i32 range.
WrappingMul(a, b) ==
    LET ah    == AbsI(a) \div 65536
        al    == AbsI(a) % 65536
        bh    == AbsI(b) \div 65536
        bl    == AbsI(b) % 65536
        u     == (al \div 256) * bl
        v     == (al % 256) * bl
        t     == ((u % 256) * 256) + v
        lo    == t % 65536
        cross == (((ah * bl) % 65536) + ((al * bh) % 65536)) % 65536
        hi    == ((u \div 256) + (t \div 65536) + cross) % 65536
        m     == IF hi >= 32768 THEN (hi - 65536) * 65536 + lo ELSE hi * 65536 + lo
    IN  IF (a >= 0) = (b >= 0) \/ m = I32Min THEN m ELSE -m

MaxI(a, b) == IF a >= b THEN a ELSE b
MinI(a, b) == IF a <= b THEN a ELSE b

(***************************************************************************)
(* Vec<bool> helpers: Rust index i is position i + 1 of the sequence.      *)
(***************************************************************************)
VecOf(n, b) == [i \in 1..n |-> b]
At(vec, i) == vec[i + 1]
Put(vec, i, b) == [vec EXCEPT ![i + 1] = b]
\* An index the vector does not have: the access panics.
BadIndex(vec, i) == i < 0 \/ i >= Len(vec)

\* FovMap::index
index(width, x, y) == x + y * width

(***************************************************************************)
(* Line rasterizer (bresenham module): a lazy iterator over the cells from *)
(* origin to destination, both included, by the integer error-accumulating *)
(* algorithm; consecutive cells are 8-connected and the last cell is the   *)
(* destination.  The iterator is a record; done means it is exhausted.     *)
(***************************************************************************)
Sign(a, b) == IF a < b THEN 1 ELSE -1

\* Bresenham::new
Bresenham(origin, destination) ==
    LET dx == AbsI(destination[1] - origin[1])
        dy == -AbsI(destination[2] - origin[2])
    IN  [x |-> origin[1], y |-> origin[2],
         x1 |-> destination[1], y1 |-> destination[2],
         dx |-> dx, dy |-> dy,
         sx |-> Sign(origin[1], destination[1]),
         sy |-> Sign(origin[2], destination[2]),
         err |-> dx + dy, done |-> FALSE]

\* Iterator::next: the cell yielded is <<it.x, it.y>>; this is the iterator after it.
BresenhamNext(it) ==
    IF it.done THEN it
    ELSE IF it.x = it.x1 /\ it.y = it.y1 THEN [it EXCEPT !.done = TRUE]
    ELSE LET e2    == 2 * it.err
             stepx == e2 >= it.dy
             stepy == e2 <= it.dx
         IN  [it EXCEPT !.x = IF stepx THEN it.x + it.sx ELSE it.x,
                        !.y = IF stepy THEN it.y + it.sy ELSE it.y,
                        !.err = it.err + (IF stepx THEN it.dy ELSE 0)
                                       + (IF stepy THEN it.dx ELSE 0)]

\* Iterator::skip(1): the ray without its first cell, the origin.
Skip1(it) == BresenhamNext(it)

(***************************************************************************)
(* FovMap: bounds checks.                                                  *)
(***************************************************************************)
\* FovMap::is_in_bounds
is_in_bounds(width, height, x, y) ==
    x >= 0 /\ y > -0 /\ x < width /\ y < height

\* FovMap::assert_in_bounds: TRUE when the call panics.
assert_in_bounds(width, height, x, y) ==
    x < 0 \/ y < 0 \/ x >= width \/ y >= height

(***************************************************************************)
(* FovMap: the sweep.  A sweep state is [ok, vision]; ok = FALSE records a *)
(* panic, after which nothing more of the call runs.                       *)
(***************************************************************************)
\* ray_loop without lines 147-149: the ray does not stop at an opaque cell.
RECURSIVE ray_loop_through_walls(_, _, _, _, _, _)
ray_loop_through_walls(s, transparent, width, it, origin, radius_square) ==
    IF it.done THEN s
    ELSE LET x        == it.x
             y        == it.y
             i        == index(width, x, y)
             distance == (x - origin[1]) * (x - origin[1])
                         + (y - origin[2]) * (y - origin[2])
         IN  IF BadIndex(s.vision, i) THEN [s EXCEPT !.ok = FALSE]
             ELSE ray_loop_through_walls(
                      IF distance <= radius_square \/ radius_square = 0
                      THEN [s EXCEPT !.vision = Put(s.vision, i, TRUE)]
                      ELSE s,
                      transparent, width, BresenhamNext(it), origin, radius_square)

\* for (x, y) in bresenham { ... } of cast_ray_and_mark_visible
RECURSIVE ray_loop(_, _, _, _, _, _)
ray_loop(s, transparent, width, it, origin, radius_square) ==
    IF it.done THEN s
    ELSE LET x        == it.x
             y        == it.y
             i        == index(width, x, y)
             distance == (x - origin[1]) * (x - origin[1])
                         + (y - origin[2]) * (y - origin[2])
         IN  IF BadIndex(s.vision, i) THEN [s EXCEPT !.ok = FALSE]
             ELSE LET marked == IF distance <= radius_square \/ radius_square = 0
                                THEN [s EXCEPT !.vision = Put(s.vision, i, TRUE)]
                                ELSE s
                  IN  IF ~At(transparent, i) THEN marked
                      ELSE ray_loop(marked, transparent, width, BresenhamNext(it),
                                    origin, radius_square)

\* FovMap::cast_ray_and_mark_visible
cast_ray_and_mark_visible(s, transparent, width, origin, destination, radius_square) ==
    IF ~s.ok THEN s
    ELSE ray_loop(s, transparent, width, Skip1(Bresenham(origin, destination)),
                  origin, radius_square)

\* The destinations of the two loops of calculate_fov, in the order they are cast:
\* for x in minx..maxx + 1 { (x, miny); (x, maxy) }, then
\* for y in miny + 1..maxy { (minx, y); (maxx, y) }.
Perimeter(minx, miny, maxx, maxy) ==
    LET nx == MaxI(0, (maxx + 1) - minx)
        ny == MaxI(0, maxy - (miny + 1))
    IN  [k \in 1..(2 * nx) |->
            <<minx + ((k - 1) \div 2), IF k % 2 = 1 THEN miny ELSE maxy>>]
        \o
        [k \in 1..(2 * ny) |->
            <<IF k % 2 = 1 THEN minx ELSE maxx, miny + 1 + ((k - 1) \div 2)>>]

RECURSIVE cast_all(_, _, _, _, _, _, _)
cast_all(s, transparent, width, origin, dests, k, radius_square) ==
    IF k > Len(dests) THEN s
    ELSE cast_all(cast_ray_and_mark_visible(s, transparent, width, origin,
                                            dests[k], radius_square),
                  transparent, width, origin, dests, k + 1, radius_square)

\* The cells of for x in minx..=maxx { for y in miny..=maxy { ... } }, in order.
Rectangle(minx, miny, maxx, maxy) ==
    LET nx == MaxI(0, (maxx - minx) + 1)
        ny == MaxI(0, (maxy - miny) + 1)
    IN  [k \in 1..(nx * ny) |-> <<minx + ((k - 1) \div ny), miny + ((k - 1) % ny)>>]

\* The body of the two loops of FovMap::post_process_vision for one cell.
\* Every cell of a quadrant rectangle and its two neighbours toward the
\* origin are inside the grid, so no index is out of range.
post_process_cell(vision, transparent, width, x, y, dx, dy) ==
    LET i == index(width, x, y)
    IN  IF ~At(transparent, i) /\ ~At(vision, i)
        THEN LET neighboor_x == x + dx
                 neighboor_y == y + dy
                 index_0     == index(width, neighboor_x, y)
                 index_1     == index(width, x, neighboor_y)
             IN  IF \/ At(transparent, index_0) /\ At(vision, index_0)
                    \/ At(transparent, index_1) /\ At(vision, index_1)
                 THEN Put(vision, i, TRUE)
                 ELSE vision
        ELSE vision

RECURSIVE post_process_loop(_, _, _, _, _, _, _)
post_process_loop(vision, transparent, width, cells, k, dx, dy) ==
    IF k > Len(cells) THEN vision
    ELSE post_process_loop(
             post_process_cell(vision, transparent, width, cells[k][1], cells[k][2], dx, dy),
             transparent, width, cells, k + 1, dx, dy)

\* FovMap::post_process_vision
post_process_vision(vision, transparent, width, minx, miny, maxx, maxy, dx, dy) ==
    post_process_loop(vision, transparent, width,
                      Rectangle(minx, miny, maxx, maxy), 1, dx, dy)

\* The arguments of the four calls of lines 101-104: SE, SW, NW, NE.
Passes(x, y, minx, miny, maxx, maxy) ==
    <<[minx |-> x + 1, miny |-> y + 1, maxx |-> maxx, maxy |-> maxy, dx |-> -1, dy |-> -1],
      [minx |-> minx, miny |-> y + 1, maxx |-> x - 1, maxy |-> maxy, dx |-> 1, dy |-> -1],
      [minx |-> minx, miny |-> miny, maxx |-> x - 1, maxy |-> y - 1, dx |-> 1, dy |-> 1],
      [minx |-> x + 1, miny |-> miny, maxx |-> maxx, maxy |-> y - 1, dx |-> -1, dy |-> 1]>>

\* The calls of lines 101-104 made in the order given: order[k] is the pass run k-th.
RECURSIVE post_process_in_order(_, _, _, _, _, _)
post_process_in_order(vision, transparent, width, passes, order, k) ==
    IF k > Len(order) THEN vision
    ELSE LET p == passes[order[k]]
         IN  post_process_in_order(
                 post_process_vision(vision, transparent, width, p.minx, p.miny,
                                     p.maxx, p.maxy, p.dx, p.dy),
                 transparent, width, passes, order, k + 1)

\* post_process_all without line 104: the NE pass is not run.
post_process_all_without_ne(vision, transparent, width, x, y, minx, miny, maxx, maxy) ==
    LET se == post_process_vision(vision, transparent, width, x + 1, y + 1, maxx, maxy, -1, -1)
        sw == post_process_vision(se, transparent, width, minx, y + 1, x - 1, maxy, 1, -1)
    IN  post_process_vision(sw, transparent, width, minx, miny, x - 1, y - 1, 1, 1)

\* post_process_all without line 101: the SE pass is not run.
post_process_all_without_se(vision, transparent, width, x, y, minx, miny, maxx, maxy) ==
    LET sw == post_process_vision(vision, transparent, width, minx, y + 1, x - 1, maxy, 1, -1)
        nw == post_process_vision(sw, transparent, width, minx, miny, x - 1, y - 1, 1, 1)
    IN  post_process_vision(nw, transparent, width, x + 1, miny, maxx, y - 1, -1, 1)

\* Lines 101-104 of calculate_fov: the SE, SW, NW and NE passes.
post_process_all(vision, transparent, width, x, y, minx, miny, maxx, maxy) ==
    LET se == post_process_vision(vision, transparent, width, x + 1, y + 1, maxx, maxy, -1, -1)
        sw == post_process_vision(se, transparent, width, minx, y + 1, x - 1, maxy, 1, -1)
        nw == post_process_vision(sw, transparent, width, minx, miny, x - 1, y - 1, 1, 1)
    IN  post_process_vision(nw, transparent, width, x + 1, miny, maxx, y - 1, -1, 1)

\* reset_and_mark_origin without line 75: the origin is not marked.
reset_without_mark(vision, width, x, y) ==
    VecOf(Len(vision), FALSE)

\* reset_and_mark_origin without lines 68-70: the flags are not reset.
mark_without_reset(vision, width, x, y) ==
    Put(vision, index(width, x, y), TRUE)

\* Lines 67-75 of calculate_fov: reset every flag, then mark the origin.
reset_and_mark_origin(vision, width, x, y) ==
    Put(VecOf(Len(vision), FALSE), index(width, x, y), TRUE)

\* Lines 81-105 of calculate_fov, from the state [ok, vision, last_origin]
\* left by lines 64-79.  checks: the build panics on i32 overflow.
sweep(s, transparent, width, height, x, y, radius, radius_square, checks) ==
    IF checks /\ (SubOverflows(x, radius) \/ SubOverflows(y, radius)
                  \/ AddOverflows(x, radius) \/ AddOverflows(y, radius))
    THEN [s EXCEPT !.ok = FALSE]
    ELSE LET minx == MaxI(WrappingSub(x, radius), 0)
             miny == MaxI(WrappingSub(y, radius), 0)
             maxx == MinI(WrappingAdd(x, radius), width - 1)
             maxy == MinI(WrappingAdd(y, radius), height - 1)
         IN  IF maxx - minx = 0 \/ maxy - miny = 0 THEN s
             ELSE LET rays == cast_all([ok |-> TRUE, vision |-> s.vision], transparent,
                                       width, <<x, y>>,
                                       Perimeter(minx, miny, maxx, maxy), 1, radius_square)
                  IN  IF ~rays.ok THEN [s EXCEPT !.ok = FALSE, !.vision = rays.vision]
                      ELSE [s EXCEPT !.vision =
                                post_process_all(rays.vision, transparent, width,
                                                 x, y, minx, miny, maxx, maxy)]

\* calculate_fov returning at once when the origin is the last origin.
calculate_fov_cached(vision, transparent, width, height, last_origin, x, y, radius, checks) ==
    IF checks /\ PowOverflows(radius)
    THEN [ok |-> FALSE, vision |-> vision, last_origin |-> last_origin,
          transparent |-> transparent, width |-> width, height |-> height]
    ELSE IF assert_in_bounds(width, height, x, y)
    THEN [ok |-> FALSE, vision |-> vision, last_origin |-> last_origin,
          transparent |-> transparent, width |-> width, height |-> height]
    ELSE IF last_origin = <<x, y>>
    THEN [ok |-> TRUE, vision |-> vision, last_origin |-> last_origin,
          transparent |-> transparent, width |-> width, height |-> height]
    ELSE LET radius_square == WrappingPow2(radius)
             s == [ok |-> TRUE,
                   vision |-> reset_and_mark_origin(vision, width, x, y),
                   last_origin |-> <<x, y>>,
                   transparent |-> transparent, width |-> width, height |-> height]
         IN  IF radius < 1 THEN s
             ELSE sweep(s, transparent, width, height, x, y, radius, radius_square, checks)

\* calculate_fov with the reset of lines 68-70 moved before line 66.
calculate_fov_reset_first(vision, transparent, width, height, last_origin, x, y, radius, checks) ==
    IF checks /\ PowOverflows(radius)
    THEN [ok |-> FALSE, vision |-> vision, last_origin |-> last_origin,
          transparent |-> transparent, width |-> width, height |-> height]
    ELSE IF assert_in_bounds(width, height, x, y)
    THEN [ok |-> FALSE, vision |-> VecOf(Len(vision), FALSE), last_origin |-> last_origin,
          transparent |-> transparent, width |-> width, height |-> height]
    ELSE LET radius_square == WrappingPow2(radius)
             s == [ok |-> TRUE,
                   vision |-> reset_and_mark_origin(vision, width, x, y),
                   last_origin |-> <<x, y>>,
                   transparent |-> transparent, width |-> width, height |-> height]
         IN  IF radius < 1 THEN s
             ELSE sweep(s, transparent, width, height, x, y, radius, radius_square, checks)

\* calculate_fov with line 71 moved before line 66: last_origin is assigned
\* before the origin is checked.
calculate_fov_origin_first(vision, transparent, width, height, last_origin, x, y, radius, checks) ==
    IF checks /\ PowOverflows(radius)
    THEN [ok |-> FALSE, vision |-> vision, last_origin |-> last_origin,
          transparent |-> transparent, width |-> width, height |-> height]
    ELSE IF assert_in_bounds(width, height, x, y)
    THEN [ok |-> FALSE, vision |-> vision, last_origin |-> <<x, y>>,
          transparent |-> transparent, width |-> width, height |-> height]
    ELSE LET radius_square == WrappingPow2(radius)
             s == [ok |-> TRUE,
                   vision |-> reset_and_mark_origin(vision, width, x, y),
                   last_origin |-> <<x, y>>,
                   transparent |-> transparent, width |-> width, height |-> height]
         IN  IF radius < 1 THEN s
             ELSE sweep(s, transparent, width, height, x, y, radius, radius_square, checks)

\* calculate_fov with the loop of lines 68-70 running over self.transparent
\* instead of self.vision.
calculate_fov_reset_transparent(vision, transparent, width, height, last_origin, x, y, radius, checks) ==
    IF checks /\ PowOverflows(radius)
    THEN [ok |-> FALSE, vision |-> vision, last_origin |-> last_origin,
          transparent |-> transparent, width |-> width, height |-> height]
    ELSE IF assert_in_bounds(width, height, x, y)
    THEN [ok |-> FALSE, vision |-> vision, last_origin |-> last_origin,
          transparent |-> transparent, width |-> width, height |-> height]
    ELSE LET radius_square == WrappingPow2(radius)
             opaque == VecOf(Len(transparent), FALSE)
             s == [ok |-> TRUE,
                   vision |-> mark_without_reset(vision, width, x, y),
                   last_origin |-> <<x, y>>,
                   transparent |-> opaque, width |-> width, height |-> height]
         IN  IF radius < 1 THEN s
             ELSE sweep(s, opaque, width, height, x, y, radius, radius_square, checks)

\* FovMap::calculate_fov: the fields of self it leaves, and ok = FALSE when it
\* panicked.
calculate_fov(vision, transparent, width, height, last_origin, x, y, radius, checks) ==
    IF checks /\ PowOverflows(radius)
    THEN [ok |-> FALSE, vision |-> vision, last_origin |-> last_origin,
          transparent |-> transparent, width |-> width, height |-> height]
    ELSE IF assert_in_bounds(width, height, x, y)
    THEN [ok |-> FALSE, vision |-> vision, last_origin |-> last_origin,
          transparent |-> transparent, width |-> width, height |-> height]
    ELSE LET radius_square == WrappingPow2(radius)
             s == [ok |-> TRUE,
                   vision |-> reset_and_mark_origin(vision, width, x, y),
                   last_origin |-> <<x, y>>,
                   transparent |-> transparent, width |-> width, height |-> height]
         IN  IF radius < 1 THEN s
             ELSE sweep(s, transparent, width, height, x, y, radius, radius_square, checks)

(***************************************************************************)
(* Sub-grid variant over the Map capability.  The map is given by the      *)
(* fields of SampleMap: transparent, width, height.                        *)
(***************************************************************************)
\* is_bounded: TRUE when (x, y) is outside the map.
is_bounded(width, height, x, y) ==
    x < 0 \/ y < 0 \/ x >= width \/ y >= height

\* The free function assert_in_bounds: TRUE when the call panics.
map_assert_in_bounds(width, height, x, y) == is_bounded(width, height, x, y)

\* for (x, y) in bresenham { ... } of cast_ray; (x, y) are sub-grid coordinates,
\* sub_width the width of the buffer, width the width of the map.
RECURSIVE cast_ray_loop(_, _, _, _, _, _, _, _, _)
cast_ray_loop(s, transparent, width, sub_width, it, origin, radius_square, offset_x, offset_y) ==
    IF it.done THEN s
    ELSE LET x        == it.x
             y        == it.y
             i        == x + y * sub_width
             m        == index(width, x + offset_x, y + offset_y)
             distance == (x - origin[1]) * (x - origin[1])
                         + (y - origin[2]) * (y - origin[2])
             within   == distance <= radius_square \/ radius_square = 0
         IN  IF (within /\ BadIndex(s.vision, i)) \/ BadIndex(transparent, m)
             THEN [s EXCEPT !.ok = FALSE]
             ELSE LET marked == IF within
                                THEN [s EXCEPT !.vision = Put(s.vision, i, TRUE)]
                                ELSE s
                  IN  IF ~At(transparent, m) THEN marked
                      ELSE cast_ray_loop(marked, transparent, width, sub_width,
                                         BresenhamNext(it), origin, radius_square,
                                         offset_x, offset_y)

\* cast_ray
cast_ray(s, transparent, width, sub_width, origin, destination, radius_square, offset_x, offset_y) ==
    IF ~s.ok THEN s
    ELSE cast_ray_loop(s, transparent, width, sub_width,
                       Skip1(Bresenham(origin, destination)), origin, radius_square,
                       offset_x, offset_y)

RECURSIVE cast_ray_all(_, _, _, _, _, _, _, _, _, _)
cast_ray_all(s, transparent, width, sub_width, origin, dests, k, radius_square, offset_x, offset_y) ==
    IF k > Len(dests) THEN s
    ELSE cast_ray_all(cast_ray(s, transparent, width, sub_width, origin,
                               <<dests[k][1] - offset_x, dests[k][2] - offset_y>>,
                               radius_square, offset_x, offset_y),
                      transparent, width, sub_width, origin, dests, k + 1,
                      radius_square, offset_x, offset_y)

\* The body of the two loops of the free function post_process_vision for one
\* sub-grid cell.
sub_post_process_cell(visibles, transparent, width, sub_width, x, y, dx, dy, offset_x, offset_y) ==
    LET i == x + y * sub_width
    IN  IF ~At(transparent, index(width, x + offset_x, y + offset_y)) /\ ~At(visibles, i)
        THEN LET neighboor_x == x + dx
                 neighboor_y == y + dy
                 index_0     == neighboor_x + y * sub_width
                 index_1     == x + neighboor_y * sub_width
             IN  IF \/ At(transparent, index(width, neighboor_x + offset_x, y + offset_y))
                       /\ At(visibles, index_0)
                    \/ At(transparent, index(width, x + offset_x, neighboor_y + offset_y))
                       /\ At(visibles, index_1)
                 THEN Put(visibles, i, TRUE)
                 ELSE visibles
        ELSE visibles

RECURSIVE sub_post_process_loop(_, _, _, _, _, _, _, _, _, _)
sub_post_process_loop(visibles, transparent, width, sub_width, cells, k, dx, dy, offset_x, offset_y) ==
    IF k > Len(cells) THEN visibles
    ELSE sub_post_process_loop(
             sub_post_process_cell(visibles, transparent, width, sub_width,
                                   cells[k][1], cells[k][2], dx, dy, offset_x, offset_y),
             transparent, width, sub_width, cells, k + 1, dx, dy, offset_x, offset_y)

\* The free function post_process_vision
sub_post_process_vision(visibles, transparent, width, sub_width, minx, miny, maxx, maxy, dx, dy, offset_x, offset_y) ==
    sub_post_process_loop(visibles, transparent, width, sub_width,
                          Rectangle(minx, miny, maxx, maxy), 1, dx, dy, offset_x, offset_y)

\* Lines 379-389 of field_of_view: the world coordinates of the TRUE entries
\* of the buffer, in index order.
RECURSIVE collect_visibles(_, _, _, _, _)
collect_visibles(visibles, i, sub_width, offset_x, offset_y) ==
    IF i >= Len(visibles) THEN << >>
    ELSE (IF At(visibles, i)
          THEN << <<(i % sub_width) + offset_x, (i \div sub_width) + offset_y>> >>
          ELSE << >>)
         \o collect_visibles(visibles, i + 1, sub_width, offset_x, offset_y)

\* field_of_view: [ok, ret]; ret is the returned Vec<(i32, i32)>.
field_of_view(transparent, width, height, x, y, radius, checks) ==
    IF checks /\ PowOverflows(radius) THEN [ok |-> FALSE, ret |-> << >>]
    ELSE IF map_assert_in_bounds(width, height, x, y) THEN [ok |-> FALSE, ret |-> << >>]
    ELSE IF radius < 1 THEN [ok |-> TRUE, ret |-> << <<x, y>> >>]
    ELSE IF checks /\ (SubOverflows(x, radius) \/ SubOverflows(y, radius)
                       \/ AddOverflows(x, radius) \/ AddOverflows(y, radius))
    THEN [ok |-> FALSE, ret |-> << >>]
    ELSE
    LET radius_square == WrappingPow2(radius)
        minx == MaxI(WrappingSub(x, radius), 0)
        miny == MaxI(WrappingSub(y, radius), 0)
        maxx == MinI(WrappingAdd(x, radius), width - 1)
        maxy == MinI(WrappingAdd(y, radius), height - 1)
    IN  IF maxx - minx = 0 \/ maxy - miny = 0 THEN [ok |-> TRUE, ret |-> << >>]
        ELSE
        LET sub_width  == (maxx - minx) + 1
            sub_height == (maxy - miny) + 1
            offset_x   == minx
            offset_y   == miny
            sub_origin == <<x - offset_x, y - offset_y>>
            \* Line 272 reads the origin's entry and stores nothing.
            visibles   == VecOf(MaxI(0, sub_width * sub_height), FALSE)
            rays == cast_ray_all([ok |-> TRUE, vision |-> visibles], transparent, width,
                                 sub_width, sub_origin,
                                 Perimeter(minx, miny, maxx, maxy), 1, radius_square,
                                 offset_x, offset_y)
            se == sub_post_process_vision(rays.vision, transparent, width, sub_width,
                      (x - offset_x) + 1, (y - offset_y) + 1,
                      maxx - offset_x, maxy - offset_y, -1, -1, offset_x, offset_y)
            sw == sub_post_process_vision(se, transparent, width, sub_width,
                      minx - offset_x, (y - offset_y) + 1,
                      (x - offset_x) - 1, maxy - offset_y, 1, -1, offset_x, offset_y)
            nw == sub_post_process_vision(sw, transparent, width, sub_width,
                      minx - offset_x, miny - offset_y,
                      (x - offset_x) - 1, (y - offset_y) - 1, 1, 1, offset_x, offset_y)
            ne == sub_post_process_vision(nw, transparent, width, sub_width,
                      (x - offset_x) + 1, miny - offset_y,
                      maxx - offset_x, (y - offset_y) - 1, -1, 1, offset_x, offset_y)
        IN  IF ~rays.ok THEN [ok |-> FALSE, ret |-> << >>]
            ELSE [ok |-> TRUE,
                  ret |-> collect_visibles(ne, 0, sub_width, offset_x, offset_y)]

\* SampleMap::new
sample_new(w, h, checks) ==
    IF (w <= 0 /\ h <= 0) \/ (checks /\ MulOverflows(w, h)) \/ WrappingMul(w, h) < 0
    THEN [ok |-> FALSE, width |-> 0, height |-> 0, transparent |-> << >>,
          vision |-> << >>, last_origin |-> <<-1, -1>>]
    ELSE [ok |-> TRUE, width |-> w, height |-> h,
          transparent |-> VecOf(WrappingMul(w, h), TRUE),
          vision |-> VecOf(WrappingMul(w, h), FALSE),
          last_origin |-> <<-1, -1>>]

\* SampleMap::set_transparent: [ok, transparent]; only the vector's own
\* index check can fail.
sample_set_transparent(transparent, width, x, y, is_transparent) ==
    IF BadIndex(transparent, index(width, x, y))
    THEN [ok |-> FALSE, transparent |-> transparent]
    ELSE [ok |-> TRUE,
          transparent |-> Put(transparent, index(width, x, y), is_transparent)]

(***************************************************************************)
(* FovMap: construction and accessors, as functions of the fields.         *)
(***************************************************************************)
\* FovMap::new: [ok, width, height, transparent, vision, last_origin].
\* width * height panics or wraps when it overflows, as the build has
\* overflow checks or not; a negative product cast to usize asks vec! for
\* more than isize::MAX bytes, which panics (capacity overflow).
new(w, h, checks) ==
    IF (w <= 0 /\ h <= 0) \/ (checks /\ MulOverflows(w, h)) \/ WrappingMul(w, h) < 0
    THEN [ok |-> FALSE, width |-> 0, height |-> 0, transparent |-> << >>,
          vision |-> << >>, last_origin |-> <<-1, -1>>]
    ELSE [ok |-> TRUE, width |-> w, height |-> h,
          transparent |-> VecOf(WrappingMul(w, h), TRUE),
          vision |-> VecOf(WrappingMul(w, h), FALSE),
          last_origin |-> <<-1, -1>>]

\* FovMap::size
size(width, height) == <<width, height>>

\* set_transparent with the index of line 46 computed as y + x * width; an
\* index past the end of the vector panics.
set_transparent_transposed(transparent, width, height, x, y, is_transparent) ==
    IF assert_in_bounds(width, height, x, y) \/ BadIndex(transparent, index(width, y, x))
    THEN [ok |-> FALSE, transparent |-> transparent]
    ELSE [ok |-> TRUE,
          transparent |-> Put(transparent, index(width, y, x), is_transparent)]

\* FovMap::set_transparent: [ok, transparent].  The call panics in
\* assert_in_bounds, or at line 47 on an index the vector does not have.
set_transparent(transparent, width, height, x, y, is_transparent) ==
    IF assert_in_bounds(width, height, x, y) \/ BadIndex(transparent, index(width, x, y))
    THEN [ok |-> FALSE, transparent |-> transparent]
    ELSE [ok |-> TRUE,
          transparent |-> Put(transparent, index(width, x, y), is_transparent)]

\* FovMap::is_transparent: [ok, ret].
is_transparent(transparent, width, height, x, y) ==
    IF assert_in_bounds(width, height, x, y) \/ BadIndex(transparent, index(width, x, y))
    THEN [ok |-> FALSE, ret |-> FALSE]
    ELSE [ok |-> TRUE, ret |-> At(transparent, index(width, x, y))]

\* FovMap::is_in_fov: [ok, ret].
is_in_fov(vision, width, height, x, y) ==
    IF assert_in_bounds(width, height, x, y) \/ BadIndex(vision, index(width, x, y))
    THEN [ok |-> FALSE, ret |-> FALSE]
    ELSE [ok |-> TRUE, ret |-> At(vision, index(width, x, y))]

(***************************************************************************)
(* The state machine: one FovMap and the calls made on it.                 *)
(***************************************************************************)
VARIABLES
    constructed,      \* FovMap::new has returned an instance
    width,            \* FovMap.width
    height,           \* FovMap.height
    transparent,      \* FovMap.transparent
    vision,           \* FovMap.vision
    last_origin,      \* FovMap.last_origin
    call              \* the call whose outcome the caller holds: operation, arguments, outcome

vars == <<constructed, width, height, transparent, vision, last_origin, call>>

fields == <<width, height, transparent, vision, last_origin>>

\* Radii whose square does not fit an i32: 46341^2 wraps to a negative
\* value, 65536^2 wraps to 0.
BigRadii == {46341, 65536}

Dims == (-1..MaxW) \X (-1..MaxH)
\* Coordinates handed to the calls: every cell of the largest grid (outside
\* the smaller grids on the high side), and coordinates below 0 on either
\* axis and, as in the test check_in_bounds_out_of_bounds_panic, outside on
\* both axes at once.
Coords ==
    ((0..(MaxW - 1)) \X (0..(MaxH - 1)))
    \cup {<<-1, 0>>, <<0, -1>>, <<-1, MaxH>>}
\* Radii handed to the calls of Spec and SpecMap: the ordinary ones and
\* one whose square overflows.
Radii == (-1..MaxRadius) \cup {46341}

\* No outcome is held: the caller is between two calls.
NoCall == [op |-> "none", x |-> 0, y |-> 0, r |-> 0, b |-> FALSE,
           ok |-> TRUE, ret |-> FALSE, cells |-> << >>]

Call(op, x, y, r, b, ok, ret, cells) ==
    [op |-> op, x |-> x, y |-> y, r |-> r, b |-> b, ok |-> ok, ret |-> ret,
     cells |-> cells]

Init ==
    /\ constructed = FALSE
    /\ width = 0
    /\ height = 0
    /\ transparent = << >>
    /\ vision = << >>
    /\ last_origin = <<-1, -1>>
    /\ call = NoCall

\* The builds a construction can tell apart: with or without overflow checks
\* when width * height overflows (lines 30-31), and no difference otherwise.
NewBuilds(w, h) ==
    IF MulOverflows(w, h) THEN BOOLEAN ELSE {TRUE}

\* let fov = FovMap::new(w, h);
New(w, h) ==
    /\ ~constructed
    /\ call = NoCall
    /\ \E checks \in NewBuilds(w, h) :
       LET n == new(w, h, checks)
       IN  /\ constructed' = n.ok
           /\ width' = n.width
           /\ height' = n.height
           /\ transparent' = n.transparent
           /\ vision' = n.vision
           /\ last_origin' = n.last_origin
           /\ call' = Call("new", w, h, 0, FALSE, n.ok, FALSE, << >>)

\* The number of opaque cells.
Walls(t) == Cardinality({i \in 1..Len(t) : ~t[i]})

\* fov.set_transparent(x, y, b)
SetTransparent(x, y, b) ==
    /\ constructed
    /\ call = NoCall
    /\ LET t == set_transparent(transparent, width, height, x, y, b)
       IN  /\ Walls(t.transparent) <= MaxWalls
           /\ transparent' = t.transparent
           /\ call' = Call("set_transparent", x, y, 0, b, t.ok, FALSE, << >>)
    /\ UNCHANGED <<constructed, width, height, vision, last_origin>>

\* fov.is_transparent(x, y)
IsTransparent(x, y) ==
    /\ constructed
    /\ call = NoCall
    /\ LET t == is_transparent(transparent, width, height, x, y)
       IN  call' = Call("is_transparent", x, y, 0, FALSE, t.ok, t.ret, << >>)
    /\ UNCHANGED <<constructed, fields>>

\* fov.is_in_fov(x, y)
IsInFov(x, y) ==
    /\ constructed
    /\ call = NoCall
    /\ LET t == is_in_fov(vision, width, height, x, y)
       IN  call' = Call("is_in_fov", x, y, 0, FALSE, t.ok, t.ret, << >>)
    /\ UNCHANGED <<constructed, fields>>

\* fov.is_in_bounds(x, y)
IsInBounds(x, y) ==
    /\ constructed
    /\ call = NoCall
    /\ call' = Call("is_in_bounds", x, y, 0, FALSE, TRUE,
                    is_in_bounds(width, height, x, y), << >>)
    /\ UNCHANGED <<constructed, fields>>

\* The builds a call can tell apart: with or without overflow checks when
\* radius.pow(2) overflows (line 65, line 247), and no difference otherwise.
Builds(radius) ==
    IF PowOverflows(radius) THEN BOOLEAN ELSE {TRUE}

\* fov.calculate_fov(x, y, radius).  An i32 overflow panics or wraps, as the
\* build has overflow checks or not: either outcome can be the call's.
CalculateFov(x, y, radius) ==
    /\ constructed
    /\ call = NoCall
    /\ \E checks \in Builds(radius) :
          \E c \in {calculate_fov(vision, transparent, width, height, last_origin, x, y, radius, checks)} :
              /\ vision' = c.vision
              /\ last_origin' = c.last_origin
              /\ transparent' = c.transparent
              /\ width' = c.width
              /\ height' = c.height
              /\ call' = Call("calculate_fov", x, y, radius, FALSE, c.ok, FALSE, << >>)
    /\ UNCHANGED constructed

\* The caller has used the outcome of its call and goes on.
Return ==
    /\ constructed
    /\ call # NoCall
    /\ call' = NoCall
    /\ UNCHANGED <<constructed, fields>>

Next ==
    \/ \E d \in Dims : New(d[1], d[2])
    \/ \E c \in Coords, b \in BOOLEAN : SetTransparent(c[1], c[2], b)
    \/ \E c \in Coords : IsTransparent(c[1], c[2])
    \/ \E c \in Coords : IsInFov(c[1], c[2])
    \/ \E c \in Coords : IsInBounds(c[1], c[2])
    \/ \E c \in Coords, r \in Radii : CalculateFov(c[1], c[2], r)
    \/ Return

Spec == Init /\ [][Next]_vars

(***************************************************************************)
(* SpecSweep: one calculate_fov on a grid of any size up to MaxSide x      *)
(* MaxSide, built by FovMap::new and given at most MaxSweepWalls opaque    *)
(* cells by set_transparent.                                               *)
(***************************************************************************)
Sides == 1..MaxSide
SweepRadii == (-1..MaxSweepRadius) \cup BigRadii

\* The transparency vector of new(w, h) after set_transparent(x, y, false)
\* for every cell whose index is in walls.
WithWalls(w, h, walls) == [i \in 1..(w * h) |-> (i - 1) \notin walls]

InitSweep ==
    /\ \E w \in Sides, h \in Sides :
          /\ constructed = new(w, h, TRUE).ok
          /\ width = w
          /\ height = h
          /\ transparent \in {WithWalls(w, h, walls) :
                                walls \in {ws \in SUBSET (0..(w * h - 1)) :
                                             Cardinality(ws) <= MaxSweepWalls}}
          /\ vision = new(w, h, TRUE).vision
          /\ last_origin = new(w, h, TRUE).last_origin
          /\ call = NoCall

NextSweep ==
    \E x \in 0..(width - 1), y \in 0..(height - 1), r \in SweepRadii :
        CalculateFov(x, y, r)

SpecSweep == InitSweep /\ [][NextSweep]_vars

(***************************************************************************)
(* SpecPasses: one calculate_fov of radius >= 1 on a grid of any size up   *)
(* to MaxPassW x MaxPassH with at most MaxPassWalls opaque cells, enough   *)
(* of them for several post-processing passes to act in one call.          *)
(***************************************************************************)
\* The ordinary radii, and the one whose square wraps to 0, which
\* cast_ray_and_mark_visible takes as no limit at all (line 143).
PassRadii == (1..MaxPassRadius) \cup {65536}

InitPasses ==
    /\ \E w \in 1..MaxPassW, h \in 1..MaxPassH :
          /\ constructed = new(w, h, TRUE).ok
          /\ width = w
          /\ height = h
          /\ transparent \in {WithWalls(w, h, walls) :
                                walls \in {ws \in SUBSET (0..(w * h - 1)) :
                                             Cardinality(ws) <= MaxPassWalls}}
          /\ vision = new(w, h, TRUE).vision
          /\ last_origin = new(w, h, TRUE).last_origin
          /\ call = NoCall

NextPasses ==
    \E x \in 0..(width - 1), y \in 0..(height - 1), r \in PassRadii :
        CalculateFov(x, y, r)

SpecPasses == InitPasses /\ [][NextPasses]_vars

(***************************************************************************)
(* SpecMap: a SampleMap (the Map capability) and field_of_view on it.      *)
(* SampleMap has the fields of FovMap; its set_transparent is unchecked.   *)
(***************************************************************************)
\* let map = SampleMap::new(w, h);
SampleNew(w, h) ==
    /\ ~constructed
    /\ call = NoCall
    /\ \E checks \in NewBuilds(w, h) :
       LET n == sample_new(w, h, checks)
       IN  /\ constructed' = n.ok
           /\ width' = n.width
           /\ height' = n.height
           /\ transparent' = n.transparent
           /\ vision' = n.vision
           /\ last_origin' = n.last_origin
           /\ call' = Call("new", w, h, 0, FALSE, n.ok, FALSE, << >>)

\* map.set_transparent(x, y, b)
SampleSetTransparent(x, y, b) ==
    /\ constructed
    /\ call = NoCall
    /\ LET t == sample_set_transparent(transparent, width, x, y, b)
       IN  /\ Walls(t.transparent) <= MaxWalls
           /\ transparent' = t.transparent
           /\ call' = Call("set_transparent", x, y, 0, b, t.ok, FALSE, << >>)
    /\ UNCHANGED <<constructed, width, height, vision, last_origin>>

\* field_of_view(&mut map, x, y, radius), with either outcome of an overflow.
FieldOfView(x, y, radius) ==
    /\ constructed
    /\ call = NoCall
    /\ \E checks \in Builds(radius) :
          \E f \in {field_of_view(transparent, width, height, x, y, radius, checks)} :
              call' = Call("field_of_view", x, y, radius, FALSE, f.ok, FALSE, f.ret)
    /\ UNCHANGED <<constructed, fields>>

NextMap ==
    \/ \E d \in Dims : SampleNew(d[1], d[2])
    \/ \E c \in Coords, b \in BOOLEAN : SampleSetTransparent(c[1], c[2], b)
    \/ \E c \in Coords, r \in Radii : FieldOfView(c[1], c[2], r)
    \/ Return

SpecMap == Init /\ [][NextMap]_vars

(***************************************************************************)
(* SpecNew: FovMap::new with the dimensions of Spec and with sides whose   *)
(* product does not fit an i32, and the read accessors on what it built.   *)
(***************************************************************************)
\* 46341 * 46341 wraps to a negative value, 65536 * 65536 wraps to 0.
BigSides == {46341, 65536}
NewDims == Dims \cup {<<n, n>> : n \in BigSides}

\* fov.size()
Size ==
    /\ constructed
    /\ call = NoCall
    /\ call' = Call("size", 0, 0, 0, FALSE, TRUE, FALSE, <<size(width, height)>>)
    /\ UNCHANGED <<constructed, fields>>

NextNew ==
    \/ \E d \in NewDims : New(d[1], d[2])
    \/ Size
    \/ \E c \in Coords : IsTransparent(c[1], c[2])
    \/ \E c \in Coords : IsInFov(c[1], c[2])
    \/ Return

SpecNew == Init /\ [][NextNew]_vars

(***************************************************************************)
(* Vocabulary of the properties.                                           *)
(***************************************************************************)
Cells == (0..(width - 1)) \X (0..(height - 1))

\* The cells is_in_fov reports visible, for a vision vector of this grid.
VisibleOf(vis) == {c \in Cells : is_in_fov(vis, width, height, c[1], c[2]).ret}
Visible == VisibleOf(vision)

InGrid(x, y) == 0 <= x /\ x < width /\ 0 <= y /\ y < height

Dist2(c, d) == (c[1] - d[1]) * (c[1] - d[1]) + (c[2] - d[2]) * (c[2] - d[2])

\* d2 <= r^2 for r >= 0; squares of radii above SqrtI32Max exceed every
\* squared distance of the grid.
WithinRadius(d2, r) == r > SqrtI32Max \/ d2 <= r * r

\* The last call was calculate_fov and it returned.
Computed == call.op = "calculate_fov" /\ call.ok
Origin == <<call.x, call.y>>

\* A vision vector of this grid on which nothing was ever computed.
Fresh == VecOf(Len(vision), FALSE)

\* What a calculate_fov(x, y, r) that returns leaves on this grid when nothing
\* was computed before: a call that returns has not panicked on an overflow.
FromFresh(x, y, r) ==
    calculate_fov(Fresh, transparent, width, height, <<-1, -1>>, x, y, r, FALSE)

\* The bounding square of the last call is a single row or column (line 86).
Degenerate ==
    \/ MinI(call.x + call.r, width - 1) - MaxI(call.x - call.r, 0) = 0
    \/ MinI(call.y + call.r, height - 1) - MaxI(call.y - call.r, 0) = 0

\* The bounding square of the last call (lines 81-84); no radius of the model
\* overflows x - radius or x + radius.
MinX == MaxI(call.x - call.r, 0)
MinY == MaxI(call.y - call.r, 0)
MaxX == MinI(call.x + call.r, width - 1)
MaxY == MinI(call.y + call.r, height - 1)

\* The flags the last call had set when its two ray loops ended (line 99),
\* before the four passes.
Swept ==
    cast_all([ok |-> TRUE, vision |-> reset_and_mark_origin(Fresh, width, call.x, call.y)],
             transparent, width, Origin, Perimeter(MinX, MinY, MaxX, MaxY), 1,
             WrappingPow2(call.r)).vision

\* The four quadrant rectangles of lines 101-104 with their directions:
\* [cells, dx, dy] for SE, SW, NW, NE.
Quadrants ==
    {[cells |-> ((call.x + 1)..MaxX) \X ((call.y + 1)..MaxY), dx |-> -1, dy |-> -1],
     [cells |-> (MinX..(call.x - 1)) \X ((call.y + 1)..MaxY), dx |-> 1, dy |-> -1],
     [cells |-> (MinX..(call.x - 1)) \X (MinY..(call.y - 1)), dx |-> 1, dy |-> 1],
     [cells |-> ((call.x + 1)..MaxX) \X (MinY..(call.y - 1)), dx |-> -1, dy |-> 1]}

\* The vision vector of this grid on which exactly the cells of seen are visible.
FlagsOf(seen) ==
    [i \in 1..Len(vision) |-> <<(i - 1) % width, (i - 1) \div width>> \in seen]

\* c and d are distinct cells that touch by a side or a corner.
Adjacent(c, d) ==
    c # d /\ AbsI(c[1] - d[1]) <= 1 /\ AbsI(c[2] - d[2]) <= 1

\* The cells joined to a cell of from by a chain of 8-connected cells of through.
RECURSIVE Joined(_, _)
Joined(from, through) ==
    LET more == {c \in through \ from : \E d \in from : Adjacent(c, d)}
    IN  IF more = {} THEN from ELSE Joined(from \cup more, through)

\* The 24 orders of the four passes.
Orders == {o \in [1..4 -> 1..4] : \A i \in 1..4, j \in 1..4 : o[i] = o[j] => i = j}

IsWall(c) == ~is_transparent(transparent, width, height, c[1], c[2]).ret

\* c is transparent and visible.
SeenOpen(c) == c \in Visible /\ ~IsWall(c)

\* w lies on the straight segment from o to c, strictly between them.
Between(o, w, c) ==
    /\ w # o
    /\ w # c
    /\ (w[1] - o[1]) * (c[2] - o[2]) - (w[2] - o[2]) * (c[1] - o[1]) = 0
    /\ (w[1] - o[1]) * (c[1] - o[1]) + (w[2] - o[2]) * (c[2] - o[2]) > 0
    /\ Dist2(o, w) < Dist2(o, c)

\* The checked operations of C9.
CheckedOps == {"set_transparent", "is_transparent", "is_in_fov", "calculate_fov"}

RECURSIVE SetOf(_)
SetOf(s) == IF s = << >> THEN {} ELSE {Head(s)} \cup SetOf(Tail(s))

(***************************************************************************)
(* C1 - C10                                                                *)
(***************************************************************************)
\* C1: after calculate_fov(x, y, r) with r >= 0 has returned, is_in_fov(x, y)
\* returns true.
C1_SelfVisible ==
    (Computed /\ call.r >= 0)
        => is_in_fov(vision, width, height, call.x, call.y) = [ok |-> TRUE, ret |-> TRUE]

\* A sweep of radius >= 1 over a grid with an opaque cell and an unseen cell has returned.
C1_Witness ==
    /\ Computed
    /\ call.r >= 1
    /\ ~Degenerate
    /\ Walls(transparent) > 0
    /\ Visible # Cells

\* C2: after calculate_fov(x, y, r) with r < 1 has returned, exactly the origin
\* cell is visible, whatever the transparency and the flags before the call.
C2_OnlyOrigin ==
    (Computed /\ call.r < 1) => Visible = {Origin}

\* calculate_fov with r < 1 has returned on a grid of several cells, one of them opaque.
C2_Witness ==
    /\ Computed
    /\ call.r < 1
    /\ Cardinality(Cells) > 1
    /\ Walls(transparent) > 0

\* C3: on a grid without opaque cells, after calculate_fov(cx, cy, r) with
\* r >= 1 the visible cells are exactly the cells of the grid with
\* (x-cx)^2 + (y-cy)^2 <= r^2, grids one cell wide or high included.
C3_OpenGridDisk ==
    (Computed /\ call.r >= 1 /\ Walls(transparent) = 0)
        => Visible = {c \in Cells : WithinRadius(Dist2(c, Origin), call.r)}

\* C4: when the only opaque cell w lies on the straight line between the origin
\* and a farther cell c, and the radius covers both, c is not visible and w is.
C4_Occlusion ==
    (Computed /\ Walls(transparent) = 1)
        => \A w \in Cells, c \in Cells :
              (IsWall(w) /\ Between(Origin, w, c)
                 /\ WithinRadius(Dist2(Origin, c), call.r) /\ call.r >= 1)
                  => (w \in Visible /\ c \notin Visible)

\* C5: on a fully transparent grid, for every r1 <= r2 the cells visible after
\* calculate_fov(x, y, r1) are among those visible after calculate_fov(x, y, r2).
C5_MonotonicRadius ==
    (Computed /\ Walls(transparent) = 0)
        => \A r1 \in SweepRadii :
              (r1 <= call.r /\ FromFresh(call.x, call.y, r1).ok)
                  => VisibleOf(FromFresh(call.x, call.y, r1).vision) \subseteq Visible

\* C6: the flags left by a calculate_fov(x, y, r) that returned are those the
\* same call leaves on a grid with the same transparency on which nothing was
\* computed before.
C6_NoHistory ==
    Computed => /\ FromFresh(call.x, call.y, call.r).ok
                /\ vision = FromFresh(call.x, call.y, call.r).vision

\* calculate_fov has returned on a grid with an opaque cell, leaving the origin
\* and at least one other cell visible and some cell unseen.
C6_Witness ==
    /\ Computed
    /\ Walls(transparent) > 0
    /\ Cardinality(Visible) > 1
    /\ Visible # Cells

\* C7: the coordinates field_of_view(map, x, y, r) returns are exactly the
\* cells visible after calculate_fov(x, y, r) on a grid with the same
\* dimensions and transparency, the origin included.
C7_SubGridMatches ==
    (call.op = "field_of_view" /\ call.ok)
        => /\ FromFresh(call.x, call.y, call.r).ok
           /\ SetOf(call.cells) = VisibleOf(FromFresh(call.x, call.y, call.r).vision)

\* C8: FovMap::new(width, height) fails whenever width <= 0 or height <= 0; an
\* instance exists only with width > 0 and height > 0.
C8_NewRejectsNonPositive ==
    /\ (call.op = "new" /\ (call.x <= 0 \/ call.y <= 0)) => ~call.ok
    /\ constructed => (width > 0 /\ height > 0)

\* C9: set_transparent, is_transparent, is_in_fov and calculate_fov called
\* outside [0,W)x[0,H) fail and leave transparency, visibility and last
\* origin as they were.
C9_OutOfBoundsFails ==
    [][(call'.op \in CheckedOps /\ ~InGrid(call'.x, call'.y))
          => (~call'.ok /\ UNCHANGED fields)]_vars

\* calculate_fov was rejected for its origin on a grid where an earlier
\* computation left cells visible.
C9_Witness ==
    /\ call.op = "calculate_fov"
    /\ ~call.ok
    /\ ~InGrid(call.x, call.y)
    /\ last_origin # <<-1, -1>>
    /\ Cardinality(Visible) > 1

\* C10: is_in_bounds(x, y) never fails and returns true exactly for the
\* coordinates the checked accessors accept, 0 <= x < W and 0 <= y < H.
C10_IsInBoundsExact ==
    call.op = "is_in_bounds"
        => /\ call.ok
           /\ call.ret = InGrid(call.x, call.y)
           /\ call.ret = ~assert_in_bounds(width, height, call.x, call.y)

(***************************************************************************)
(* C11 - C19                                                               *)
(***************************************************************************)
\* C11: calculate_fov, whether it returns or fails, leaves every transparency
\* flag and the width and height of the grid as they were, for every origin
\* and radius.
C11_FovKeepsTransparency ==
    [][call'.op = "calculate_fov" => UNCHANGED <<transparent, width, height>>]_vars

\* A sweep with its four passes has returned on a grid with an opaque cell,
\* changing the visible cells and leaving the opaque cell visible.
C11_Witness ==
    /\ Computed
    /\ call.r >= 1
    /\ ~Degenerate
    /\ \E c \in Visible : IsWall(c)
    /\ Visible # {Origin}

\* C12: set_transparent(x, y, b) on a cell of the grid returns, is_transparent(x, y)
\* then returns b, and the transparency of every other cell, every visibility
\* flag, the last origin and the size of the grid are as before the call.
C12_SetTransparentFrame ==
    [][(call'.op = "set_transparent" /\ InGrid(call'.x, call'.y))
          => /\ call'.ok
             /\ is_transparent(transparent', width', height', call'.x, call'.y)
                    = [ok |-> TRUE, ret |-> call'.b]
             /\ \A c \in Cells \ {<<call'.x, call'.y>>} :
                    is_transparent(transparent', width', height', c[1], c[2])
                        = is_transparent(transparent, width, height, c[1], c[2])
             /\ Len(transparent') = Len(transparent)
             /\ UNCHANGED <<vision, last_origin, width, height>>]_vars

\* set_transparent(x, y, false) has returned on a grid of several cells on which
\* an earlier computation left several cells visible.
C12_Witness ==
    /\ call.op = "set_transparent"
    /\ call.ok
    /\ ~call.b
    /\ IsWall(<<call.x, call.y>>)
    /\ last_origin # <<-1, -1>>
    /\ Cardinality(Visible) > 1

\* C13: when FovMap::new(W, H) with W > 0 and H > 0 has built a grid, size()
\* is (W, H), is_transparent returns true and is_in_fov returns false for
\* every cell of [0,W)x[0,H); and no later call changes what size() returns.
C13_NewGrid ==
    [][/\ (call'.op = "new" /\ call'.ok /\ call'.x > 0 /\ call'.y > 0)
            => /\ size(width', height') = <<call'.x, call'.y>>
               /\ \A x \in 0..(call'.x - 1), y \in 0..(call'.y - 1) :
                     /\ is_transparent(transparent', width', height', x, y)
                            = [ok |-> TRUE, ret |-> TRUE]
                     /\ is_in_fov(vision', width', height', x, y)
                            = [ok |-> TRUE, ret |-> FALSE]
       /\ constructed => size(width', height') = size(width, height)]_vars

\* C14: after calculate_fov(x, y, r) with r >= 1 and a bounding square more
\* than one cell wide and high, an opaque cell of a quadrant rectangle that
\* no ray marked is visible exactly when one of its two neighbours toward the
\* origin, (cx + dx, cy) or (cx, cy + dy), is transparent and visible.
C14_Promotion ==
    (Computed /\ call.r >= 1 /\ ~Degenerate)
        => LET marked == VisibleOf(Swept)
           IN  \A q \in Quadrants : \A c \in q.cells :
                  (IsWall(c) /\ c \notin marked)
                      => (c \in Visible
                            <=> (SeenOpen(<<c[1] + q.dx, c[2]>>)
                                   \/ SeenOpen(<<c[1], c[2] + q.dy>>)))

\* A pass has made visible an opaque cell that no ray had marked.
C14_Witness ==
    /\ Computed
    /\ call.r >= 1
    /\ ~Degenerate
    /\ LET marked == VisibleOf(Swept)
       IN  \E q \in Quadrants : \E c \in q.cells :
              IsWall(c) /\ c \notin marked /\ c \in Visible

\* C15: from the flags the ray loops left, the SE, SW, NW and NE passes run in
\* any of their 24 orders leave the flags calculate_fov leaves.
C15_PassesCommute ==
    (Computed /\ call.r >= 1 /\ ~Degenerate)
        => LET marked == VisibleOf(Swept)
               four   == Passes(call.x, call.y, MinX, MinY, MaxX, MaxY)
           IN  \A o \in Orders :
                  post_process_in_order(FlagsOf(marked), transparent, width, four, o, 1)
                      = vision

\* Two passes have each made visible an opaque cell of their rectangle that
\* the ray loops had left unseen.
C15_Witness ==
    /\ Computed
    /\ call.r >= 1
    /\ ~Degenerate
    /\ LET promoted == Visible \ VisibleOf(Swept)
       IN  \E q1 \in Quadrants, q2 \in Quadrants :
              /\ q1 # q2
              /\ q1.cells \cap promoted # {}
              /\ q2.cells \cap promoted # {}

\* C16: after calculate_fov(x, y, r) with r >= 1, every visible cell (cx, cy),
\* opaque cells made visible by the passes included, has
\* (cx - x)^2 + (cy - y)^2 <= r^2.
C16_WithinRadius ==
    (Computed /\ call.r >= 1)
        => \A c \in Visible : WithinRadius(Dist2(c, Origin), call.r)

\* C17: after calculate_fov, every visible transparent cell other than the
\* origin is joined to the origin by a chain of 8-connected cells that are
\* all transparent and visible, the origin apart; and when every neighbour of
\* the origin is opaque, no cell beyond those neighbours is visible.
C17_NoLeak ==
    Computed
        => LET open == {c \in Visible : ~IsWall(c)} \ {Origin}
               near == {c \in Cells : Adjacent(c, Origin)}
           IN  /\ open \subseteq Joined({Origin}, open)
               /\ (\A c \in near : IsWall(c)) => Visible \subseteq ({Origin} \cup near)

\* A sweep has returned with a transparent cell other than the origin visible
\* and another transparent cell, within the radius, hidden.
C17_Witness ==
    /\ Computed
    /\ call.r >= 1
    /\ ~Degenerate
    /\ \E c \in Visible \ {Origin} : ~IsWall(c)
    /\ \E c \in Cells \ Visible : ~IsWall(c) /\ WithinRadius(Dist2(c, Origin), call.r)

C19_AnyRadius ==
    (call.op = "calculate_fov" /\ InGrid(call.x, call.y))
        => /\ call.ok
           /\ call.r >= width + height
                 => vision = FromFresh(call.x, call.y, width + height).vision

====
